---- MODULE Spec2Model ----
(***************************************************************************)
(* Provisioner of ismail/pulumi-test.  The repository holds three variants *)
(* of the same Pulumi program:                                             *)
(*   "helpers"        src/main.go:1-173    runOrderedCommands and          *)
(*                                         runIndependentCommands          *)
(*   "single_chain"   src/main.go:175-270  one dependency chain            *)
(*   "base_commands"  src/unnamed/part_000 base_commands loop followed by  *)
(*                                         the independent commands loop   *)
(* A run is the callback handed to pulumi.Run.  Every remote.NewCommand    *)
(* call is one step; whether the SDK accepts the submission is an input.   *)
(***************************************************************************)
EXTENDS Integers, Sequences, FiniteSets, TLC

VARIABLES
    variant,        \* which of the three programs runs
    distribution,   \* cfg.Require("distribution")
    pc,             \* position of the run inside the callback
    err,            \* the callback's local variable err
    installCmdStr,  \* local installCmd (result of installCmd(distribution))
    updateCmdStr,   \* local updateCmd (result of updateCmd(distribution))
    setup_commands, \* setup_commands / base_commands / commands (single chain)
    extra_commands, \* extra_commands / commands (independent loop)
    idx,            \* index of the range loop in progress
    lastResource,   \* lastResource: name of a registered resource, or NoResource
    attempts,       \* names handed to remote.NewCommand in this run, in order
    resources,      \* resources the SDK registered in this run, in order
    log,            \* ctx.Log and stdout lines of this run
    ret,            \* value returned by the callback (meaningful at pc = "done")
    now,            \* wall clock, in ticks
    runNo,          \* number of the current run
    prevRun,        \* distribution, resources, result and time of the previous run
    calls           \* the calls of installCmd and updateCmd made in this run

vars == <<variant, distribution, pc, err, installCmdStr, updateCmdStr,
          setup_commands, extra_commands, idx, lastResource, attempts,
          resources, log, ret, now, runNo, prevRun, calls>>

----------------------------------------------------------------------------
(* Bounds of the model *)

MaxRuns == 2
TicksPerSecond == 2
MaxElapsed == 2

Variants == {"helpers", "single_chain", "base_commands"}
Supported == {"fedora", "ubuntu", "debian"}
Distributions == Supported \cup {"arch", "Fedora", ""}

----------------------------------------------------------------------------
(* Go values *)

\* the nil error; an error is the sequence of its messages, outermost first,
\* as fmt.Errorf("...: %w", inner) wraps them
Nil == <<>>
NoResource == ""
NoRun == [distribution |-> "", resources |-> <<>>, ret |-> Nil, now |-> 0, finished |-> FALSE]

RECURSIVE Join(_, _)
Join(elems, sep) ==
    IF Len(elems) = 0 THEN ""
    ELSE IF Len(elems) = 1 THEN elems[1]
    ELSE elems[1] \o sep \o Join(Tail(elems), sep)

\* fmt.Errorf(prefix + "%w", inner)
Errorf(prefix, inner) == <<prefix>> \o inner

\* err.Error()
ErrorText(e) == Join(e, "")

\* the error remote.NewCommand returns when the submission fails
SdkError == <<"resource registration failed">>
\* the error os.ReadFile returns
ReadFileError == <<"open id_ed25519: no such file or directory">>

UnsupportedDistribution(d) == <<"unsupported distribution: " \o d>>

----------------------------------------------------------------------------
(* Command tables, variant "helpers" *)

commonPackages == "bpftrace clang cmake curl gcc gdb git less llvm man-db mold pkgconf sysstat zsh"
cargoPackages == "bat csvlens hexyl hyperfine xsv"

\* installCmd with the debian case label lost
installCmdDropsDebian(d) ==
    CASE d = "fedora" -> [val |-> "sudo dnf install -y", err |-> Nil]
      [] d = "ubuntu" -> [val |-> "sudo apt-get install -y", err |-> Nil]
      [] OTHER -> [val |-> "", err |-> UnsupportedDistribution(d)]

installCmd(d) ==
    CASE d = "fedora" -> [val |-> "sudo dnf install -y", err |-> Nil]
      [] d \in {"ubuntu", "debian"} -> [val |-> "sudo apt-get install -y", err |-> Nil]
      [] OTHER -> [val |-> "", err |-> UnsupportedDistribution(d)]

updateCmd(d) ==
    CASE d = "fedora" -> [val |-> "sudo dnf update -y", err |-> Nil]
      [] d \in {"ubuntu", "debian"} ->
            [val |-> "sudo apt-get update && sudo apt-get dist-upgrade -y", err |-> Nil]
      [] OTHER -> [val |-> "", err |-> UnsupportedDistribution(d)]

extraPackagesForDistro(d) ==
    CASE d = "fedora" -> <<"fedora-packager", "fedora-review", "gcc-c++", "ninja", "perf">>
      [] d \in {"ubuntu", "debian"} -> <<"g++", "linux-tools-virtual", "ninja-build">>
      [] OTHER -> <<>>

Cmd(n, c) == [name |-> n, cmd |-> c]

\* setup_commands with the name install-cargo used twice
SetupCommandsDuplicateName(inst, extra) ==
    << Cmd("install-packages", inst \o " " \o commonPackages \o " " \o Join(extra, " ")),
       Cmd("install-cargo", "rm -rf ~/.cargo ~/.rustup && curl -LsSf https://sh.rustup.rs | sh -s -- -y --no-modify-path"),
       Cmd("install-cargo", "~/.cargo/bin/cargo install " \o cargoPackages),
       Cmd("setup-config", "rm -rf ~/github/config && git clone https://github.com/ismail/config.git ~/github/config && ~/github/config/setup.sh"),
       Cmd("setup-hacks", "rm -rf ~/github/hacks && git clone https://github.com/ismail/hacks.git ~/github/hacks && ~/github/hacks/setup.sh"),
       Cmd("set-zlogin", "echo 'path+=(~/.local/bin ~/.cargo/bin $path)\n\neval \"$(starship init zsh)\"' > ~/.zlogin"),
       Cmd("use-zsh", "sudo chsh -s /bin/zsh ismail") >>

SetupCommands(inst, extra) ==
    << Cmd("install-packages", inst \o " " \o commonPackages \o " " \o Join(extra, " ")),
       Cmd("install-cargo", "rm -rf ~/.cargo ~/.rustup && curl -LsSf https://sh.rustup.rs | sh -s -- -y --no-modify-path"),
       Cmd("install-cargo-packages", "~/.cargo/bin/cargo install " \o cargoPackages),
       Cmd("setup-config", "rm -rf ~/github/config && git clone https://github.com/ismail/config.git ~/github/config && ~/github/config/setup.sh"),
       Cmd("setup-hacks", "rm -rf ~/github/hacks && git clone https://github.com/ismail/hacks.git ~/github/hacks && ~/github/hacks/setup.sh"),
       Cmd("set-zlogin", "echo 'path+=(~/.local/bin ~/.cargo/bin $path)\n\neval \"$(starship init zsh)\"' > ~/.zlogin"),
       Cmd("use-zsh", "sudo chsh -s /bin/zsh ismail") >>

ExtraCommands ==
    << Cmd("install-starship", "curl -sS https://starship.rs/install.sh | sudo sh -s -- -y"),
       Cmd("install-uv", "curl -LsSf https://astral.sh/uv/install.sh | UV_NO_MODIFY_PATH=1 sh"),
       Cmd("starship-disable-container", "mkdir -p ~/.config && echo \"[container]\ndisabled = true\" > ~/.config/starship.toml") >>

----------------------------------------------------------------------------
(* Command tables, variant "single_chain" *)

installCmd_sc(d) ==
    CASE d = "fedora" -> [val |-> "dnf install -y", err |-> Nil]
      [] d \in {"ubuntu", "debian"} -> [val |-> "apt-get install -y", err |-> Nil]
      [] OTHER -> [val |-> "", err |-> UnsupportedDistribution(d)]

updateCmd_sc(d) ==
    CASE d = "fedora" -> [val |-> "sudo dnf update -y", err |-> Nil]
      [] d \in {"ubuntu", "debian"} ->
            [val |-> "sudo bash -c \"apt-get update && apt-get dist-upgrade -y\"", err |-> Nil]
      [] OTHER -> [val |-> "", err |-> UnsupportedDistribution(d)]

Commands_sc(inst, upd) ==
    << Cmd("update-system", upd),
       Cmd("install-packages", "sudo " \o inst \o " git zsh"),
       Cmd("setup-home", "rm -rf $HOME/github && mkdir $HOME/github"),
       Cmd("setup-config", "git clone https://github.com/ismail/config.git $HOME/github/config"),
       Cmd("setup-hacks", "git clone https://github.com/ismail/hacks.git $HOME/github/hacks"),
       Cmd("run-setup", "cd $HOME/github/config && ./setup.sh && cd $HOME/github/hacks && ./setup.sh"),
       Cmd("use-zsh", "sudo chsh -s /bin/zsh ismail"),
       Cmd("install-starship", "curl -sS https://starship.rs/install.sh | sudo sh -s -- -y"),
       Cmd("starship-disable-container", "mkdir -p ~/.config && echo \"[container]\ndisabled = true\" > ~/.config/starship.toml"),
       Cmd("use-starship", "echo 'eval \"$(starship init zsh)\"' > ~/.zshrc-local") >>

----------------------------------------------------------------------------
(* Command tables, variant "base_commands" *)

commonPackages_bc == "curl less git man-db zsh"

installCmd_bc(d) ==
    CASE d = "fedora" -> [val |-> "dnf install -y", err |-> Nil]
      [] d \in {"ubuntu", "debian"} -> [val |-> "apt-get install -y", err |-> Nil]
      [] OTHER -> [val |-> "", err |-> UnsupportedDistribution(d)]

updateCmd_bc(d) ==
    CASE d = "fedora" -> [val |-> "sudo dnf update -y", err |-> Nil]
      [] d \in {"ubuntu", "debian"} ->
            [val |-> "sudo bash -c \"apt-get update && apt-get dist-upgrade -y\"", err |-> Nil]
      [] OTHER -> [val |-> "", err |-> UnsupportedDistribution(d)]

extraPackagesForDistro_bc(d) ==
    CASE d = "fedora" -> <<"fedora-packager", "fedora-review">>
      [] OTHER -> <<>>

BaseCommands_bc(inst, upd, extra) ==
    << Cmd("update-system", upd),
       Cmd("install-packages", "sudo " \o inst \o " " \o commonPackages_bc \o " " \o Join(extra, " ")),
       Cmd("use-zsh", "sudo chsh -s /bin/zsh ismail") >>

Commands_bc ==
    << Cmd("install-cargo", "curl --proto '=https' --tlsv1.2 -sSf https://sh.rustup.rs | sh -s -- -y --no-modify-path"),
       Cmd("setup-config", "rm -rf ~/github/config && git clone https://github.com/ismail/config.git ~/github/config && ~/github/config/setup.sh"),
       Cmd("setup-hacks", "rm -rf ~/github/hacks && git clone https://github.com/ismail/hacks.git ~/github/hacks && ~/github/hacks/setup.sh"),
       Cmd("install-starship", "curl -sS https://starship.rs/install.sh | sudo sh -s -- -y"),
       Cmd("starship-disable-container", "mkdir -p ~/.config && echo \"[container]\ndisabled = true\" > ~/.config/starship.toml"),
       Cmd("set-zlogin", "echo 'path+=(~/.cargo/bin $path)\n\neval \"$(starship init zsh)\"' > ~/.zlogin") >>

----------------------------------------------------------------------------
(* The SDK primitives the program calls *)

\* the resource remote.NewCommand registers
NewCommand(name, create, triggers, dependsOn) ==
    [name |-> name, create |-> create, triggers |-> triggers, dependsOn |-> dependsOn]

\* time.Now().Format(time.RFC3339): the instant cut to whole seconds
FormatRFC3339(t) == "1970-01-01T00:00:0" \o ToString(t \div TicksPerSecond) \o "Z"

LogLine(level, text) == [level |-> level, text |-> text]

----------------------------------------------------------------------------
(* Control flow of the callback *)

Program(v) ==
    CASE v = "helpers" ->
            <<"read_key", "install_cmd", "update_cmd", "build", "update_system",
              "ordered", "independent", "finish">>
      [] v = "single_chain" ->
            <<"install_cmd", "update_cmd", "read_key", "build", "ordered", "finish">>
      [] v = "base_commands" ->
            <<"read_key", "install_cmd", "update_cmd", "build",
              "ordered", "independent", "finish">>

\* the statement that follows statement l in variant v
After(v, l) ==
    LET p == Program(v)
        i == CHOOSE k \in 1..Len(p) : p[k] = l
    IN  p[i + 1]

Init ==
    /\ variant \in Variants
    /\ distribution \in Distributions
    /\ pc = Program(variant)[1]
    /\ err = Nil
    /\ installCmdStr = ""
    /\ updateCmdStr = ""
    /\ setup_commands = <<>>
    /\ extra_commands = <<>>
    /\ idx = 1
    /\ lastResource = NoResource
    /\ attempts = <<>>
    /\ resources = <<>>
    /\ log = <<>>
    /\ ret = Nil
    /\ now \in 0..(TicksPerSecond - 1)
    /\ runNo = 1
    /\ prevRun = NoRun
    /\ calls = <<>>

\* key, err := os.ReadFile(...); the connection built from the key is handed
\* to the SDK unchanged and never inspected
ReadKey ==
    /\ pc = "read_key"
    /\ \E ok \in BOOLEAN :
          IF ok
          THEN /\ err' = Nil
               /\ pc' = After(variant, "read_key")
               /\ ret' = ret
          ELSE /\ err' = ReadFileError
               /\ ret' = Errorf("failed to read private key: ", ReadFileError)
               /\ pc' = "done"
    /\ UNCHANGED <<variant, distribution, installCmdStr, updateCmdStr, setup_commands,
                   extra_commands, idx, lastResource, attempts, resources, log,
                   now, runNo, prevRun, calls>>

InstallCmdOf(v, d) ==
    CASE v = "helpers" -> installCmd(d)
      [] v = "single_chain" -> installCmd_sc(d)
      [] v = "base_commands" -> installCmd_bc(d)

UpdateCmdOf(v, d) ==
    CASE v = "helpers" -> updateCmd(d)
      [] v = "single_chain" -> updateCmd_sc(d)
      [] v = "base_commands" -> updateCmd_bc(d)

\* installCmd, err := installCmd(distribution); if err != nil { return ... }
CallInstallCmd ==
    /\ pc = "install_cmd"
    /\ variant \in {"helpers", "base_commands"}
    /\ LET r == InstallCmdOf(variant, distribution) IN
          /\ installCmdStr' = r.val
          /\ err' = r.err
          /\ calls' = Append(calls, [fn |-> "installCmd", arg |-> distribution,
                                      val |-> r.val, err |-> r.err])
          /\ IF r.err # Nil
             THEN /\ ret' = Errorf("failed to get install command: ", r.err)
                  /\ pc' = "done"
             ELSE /\ ret' = ret
                  /\ pc' = After(variant, "install_cmd")
    /\ UNCHANGED <<variant, distribution, updateCmdStr, setup_commands, extra_commands,
                   idx, lastResource, attempts, resources, log, now, runNo, prevRun>>

\* updateCmd, err := updateCmd(distribution); if err != nil { return ... }
CallUpdateCmd ==
    /\ pc = "update_cmd"
    /\ variant \in {"helpers", "base_commands"}
    /\ LET r == UpdateCmdOf(variant, distribution) IN
          /\ updateCmdStr' = r.val
          /\ err' = r.err
          /\ calls' = Append(calls, [fn |-> "updateCmd", arg |-> distribution,
                                      val |-> r.val, err |-> r.err])
          /\ IF r.err # Nil
             THEN /\ ret' = Errorf("failed to get update command: ", r.err)
                  /\ pc' = "done"
             ELSE /\ ret' = ret
                  /\ pc' = After(variant, "update_cmd")
    /\ UNCHANGED <<variant, distribution, installCmdStr, setup_commands, extra_commands,
                   idx, lastResource, attempts, resources, log, now, runNo, prevRun>>

\* single chain: installCmd, err := installCmd(distribution), err never read
CallInstallCmd_sc ==
    /\ pc = "install_cmd"
    /\ variant = "single_chain"
    /\ LET r == InstallCmdOf(variant, distribution) IN
          /\ installCmdStr' = r.val
          /\ err' = r.err
          /\ calls' = Append(calls, [fn |-> "installCmd", arg |-> distribution,
                                      val |-> r.val, err |-> r.err])
    /\ pc' = After(variant, "install_cmd")
    /\ UNCHANGED <<variant, distribution, updateCmdStr, setup_commands, extra_commands,
                   idx, lastResource, attempts, resources, log, ret, now, runNo, prevRun>>

\* single chain: updateCmd, err := updateCmd(distribution), err overwritten by
\* the os.ReadFile that follows
CallUpdateCmd_sc ==
    /\ pc = "update_cmd"
    /\ variant = "single_chain"
    /\ LET r == UpdateCmdOf(variant, distribution) IN
          /\ updateCmdStr' = r.val
          /\ err' = r.err
          /\ calls' = Append(calls, [fn |-> "updateCmd", arg |-> distribution,
                                      val |-> r.val, err |-> r.err])
    /\ pc' = After(variant, "update_cmd")
    /\ UNCHANGED <<variant, distribution, installCmdStr, setup_commands, extra_commands,
                   idx, lastResource, attempts, resources, log, ret, now, runNo, prevRun>>

\* the two command lists of each variant
BuildCommands ==
    /\ pc = "build"
    /\ variant = "helpers"
    /\ setup_commands' = SetupCommands(installCmdStr, extraPackagesForDistro(distribution))
    /\ extra_commands' = ExtraCommands
    /\ pc' = After(variant, "build")
    /\ UNCHANGED <<variant, distribution, err, installCmdStr, updateCmdStr, idx,
                   lastResource, attempts, resources, log, ret, now, runNo, prevRun, calls>>

BuildCommands_sc ==
    /\ pc = "build"
    /\ variant = "single_chain"
    /\ setup_commands' = Commands_sc(installCmdStr, updateCmdStr)
    /\ extra_commands' = <<>>
    /\ pc' = After(variant, "build")
    /\ UNCHANGED <<variant, distribution, err, installCmdStr, updateCmdStr, idx,
                   lastResource, attempts, resources, log, ret, now, runNo, prevRun, calls>>

BuildCommands_bc ==
    /\ pc = "build"
    /\ variant = "base_commands"
    /\ setup_commands' = BaseCommands_bc(installCmdStr, updateCmdStr,
                                         extraPackagesForDistro_bc(distribution))
    /\ extra_commands' = Commands_bc
    /\ pc' = After(variant, "build")
    /\ UNCHANGED <<variant, distribution, err, installCmdStr, updateCmdStr, idx,
                   lastResource, attempts, resources, log, ret, now, runNo, prevRun, calls>>

----------------------------------------------------------------------------
(* Variant "helpers": update-system, runOrderedCommands, runIndependentCommands *)

\* update-system triggered by its shell text, as the loops trigger their commands
UpdateSystemTriggersOnShell ==
    /\ attempts' = Append(attempts, "update-system")
    /\ resources' = Append(resources,
            NewCommand("update-system", updateCmdStr, <<updateCmdStr>>, {}))
    /\ lastResource' = "update-system"
    /\ idx' = 1
    /\ pc' = After(variant, "update_system")
    /\ UNCHANGED <<log, ret>>

\* remote.NewCommand(ctx, "update-system", ...) accepted; base_cmd becomes the
\* first lastResource of runOrderedCommands
UpdateSystemSubmitted ==
    /\ attempts' = Append(attempts, "update-system")
    /\ resources' = Append(resources,
            NewCommand("update-system", updateCmdStr, <<FormatRFC3339(now)>>, {}))
    /\ lastResource' = "update-system"
    /\ idx' = 1
    /\ pc' = After(variant, "update_system")
    /\ UNCHANGED <<log, ret>>

\* remote.NewCommand(ctx, "update-system", ...) returned an error
UpdateSystemFailed ==
    /\ attempts' = Append(attempts, "update-system")
    /\ ret' = Errorf("failed to update the system: ", SdkError)
    /\ pc' = "done"
    /\ UNCHANGED <<resources, lastResource, idx, log>>

UpdateSystem ==
    /\ pc = "update_system"
    /\ variant = "helpers"
    /\ \/ UpdateSystemSubmitted
       \/ UpdateSystemFailed
    /\ err' = IF pc' = "done" THEN SdkError ELSE Nil
    /\ UNCHANGED <<variant, distribution, installCmdStr, updateCmdStr, setup_commands,
                   extra_commands, now, runNo, prevRun, calls>>

\* the loop iteration without lastResource = r
OrderedKeepsFirstAnchor ==
    LET c == setup_commands[idx] IN
    /\ log' = Append(log, LogLine("info", c.name \o ": '" \o c.cmd \o "'"))
    /\ attempts' = Append(attempts, c.name)
    /\ resources' = Append(resources, NewCommand(c.name, c.cmd, <<c.cmd>>, {lastResource}))
    /\ lastResource' = lastResource
    /\ IF idx = Len(setup_commands)
       THEN /\ idx' = 1
            /\ pc' = After(variant, "ordered")
       ELSE /\ idx' = idx + 1
            /\ pc' = pc
    /\ ret' = ret

\* one iteration of the loop of runOrderedCommands whose NewCommand is accepted
OrderedSubmitted ==
    LET c == setup_commands[idx] IN
    /\ log' = Append(log, LogLine("info", c.name \o ": '" \o c.cmd \o "'"))
    /\ attempts' = Append(attempts, c.name)
    /\ resources' = Append(resources, NewCommand(c.name, c.cmd, <<c.cmd>>, {lastResource}))
    /\ lastResource' = c.name
    /\ IF idx = Len(setup_commands)
       THEN /\ idx' = 1
            /\ pc' = After(variant, "ordered")
       ELSE /\ idx' = idx + 1
            /\ pc' = pc
    /\ ret' = ret

\* the failing iteration going on with the next command instead of returning
OrderedFailedSkipsCommand ==
    LET c == setup_commands[idx] IN
    /\ log' = Append(log, LogLine("info", c.name \o ": '" \o c.cmd \o "'"))
    /\ attempts' = Append(attempts, c.name)
    /\ IF idx = Len(setup_commands)
       THEN /\ idx' = 1
            /\ pc' = After(variant, "ordered")
       ELSE /\ idx' = idx + 1
            /\ pc' = pc
    /\ UNCHANGED <<resources, lastResource, ret>>

\* main logging the error of runOrderedCommands without returning it
OrderedFailedRunsTheRest ==
    LET c == setup_commands[idx]
        e == Errorf("failed to run command '" \o c.cmd \o "': ", SdkError)
    IN
    /\ log' = log \o << LogLine("info", c.name \o ": '" \o c.cmd \o "'"),
                        LogLine("error", "Failed to run base commands: " \o ErrorText(e)) >>
    /\ attempts' = Append(attempts, c.name)
    /\ idx' = 1
    /\ pc' = After(variant, "ordered")
    /\ UNCHANGED <<resources, lastResource, ret>>

\* the iteration whose NewCommand fails: runOrderedCommands returns the wrapped
\* error, main logs it and returns it
OrderedFailed ==
    LET c == setup_commands[idx]
        e == Errorf("failed to run command '" \o c.cmd \o "': ", SdkError)
    IN
    /\ log' = log \o << LogLine("info", c.name \o ": '" \o c.cmd \o "'"),
                        LogLine("error", "Failed to run base commands: " \o ErrorText(e)) >>
    /\ attempts' = Append(attempts, c.name)
    /\ ret' = e
    /\ pc' = "done"
    /\ UNCHANGED <<resources, lastResource, idx>>

runOrderedCommands ==
    /\ pc = "ordered"
    /\ variant = "helpers"
    /\ \/ OrderedSubmitted
       \/ OrderedFailed
    /\ err' = IF Len(resources') = Len(resources) THEN SdkError ELSE Nil
    /\ UNCHANGED <<variant, distribution, installCmdStr, updateCmdStr, setup_commands,
                   extra_commands, now, runNo, prevRun, calls>>

\* the independent iteration given the DependsOn of the ordered loop
IndependentChained ==
    LET c == extra_commands[idx] IN
    /\ log' = Append(log, LogLine("info", c.name \o ": '" \o c.cmd \o "'"))
    /\ attempts' = Append(attempts, c.name)
    /\ resources' = Append(resources, NewCommand(c.name, c.cmd, <<c.cmd>>, {lastResource}))
    /\ lastResource' = c.name
    /\ IF idx = Len(extra_commands)
       THEN /\ idx' = 1
            /\ pc' = After(variant, "independent")
       ELSE /\ idx' = idx + 1
            /\ pc' = pc
    /\ ret' = ret

\* one iteration of the loop of runIndependentCommands whose NewCommand is accepted
IndependentSubmitted ==
    LET c == extra_commands[idx] IN
    /\ log' = Append(log, LogLine("info", c.name \o ": '" \o c.cmd \o "'"))
    /\ attempts' = Append(attempts, c.name)
    /\ resources' = Append(resources, NewCommand(c.name, c.cmd, <<c.cmd>>, {}))
    /\ IF idx = Len(extra_commands)
       THEN /\ idx' = 1
            /\ pc' = After(variant, "independent")
       ELSE /\ idx' = idx + 1
            /\ pc' = pc
    /\ UNCHANGED <<lastResource, ret>>

\* the failing iteration logging the error and going on
IndependentFailedLogsOnly ==
    LET c == extra_commands[idx]
        e == Errorf("failed to run command '" \o c.cmd \o "': ", SdkError)
    IN
    /\ log' = log \o << LogLine("info", c.name \o ": '" \o c.cmd \o "'"),
                        LogLine("error", "Failed to run setup commands: " \o ErrorText(e)) >>
    /\ attempts' = Append(attempts, c.name)
    /\ IF idx = Len(extra_commands)
       THEN /\ idx' = 1
            /\ pc' = After(variant, "independent")
       ELSE /\ idx' = idx + 1
            /\ pc' = pc
    /\ UNCHANGED <<resources, lastResource, ret>>

\* the iteration whose NewCommand fails: runIndependentCommands returns the
\* wrapped error, main logs it and returns it
IndependentFailed ==
    LET c == extra_commands[idx]
        e == Errorf("failed to run command '" \o c.cmd \o "': ", SdkError)
    IN
    /\ log' = log \o << LogLine("info", c.name \o ": '" \o c.cmd \o "'"),
                        LogLine("error", "Failed to run setup commands: " \o ErrorText(e)) >>
    /\ attempts' = Append(attempts, c.name)
    /\ ret' = e
    /\ pc' = "done"
    /\ UNCHANGED <<resources, lastResource, idx>>

runIndependentCommands ==
    /\ pc = "independent"
    /\ variant = "helpers"
    /\ \/ IndependentSubmitted
       \/ IndependentFailed
    /\ err' = IF Len(resources') = Len(resources) THEN SdkError ELSE Nil
    /\ UNCHANGED <<variant, distribution, installCmdStr, updateCmdStr, setup_commands,
                   extra_commands, now, runNo, prevRun, calls>>

----------------------------------------------------------------------------
(* Variants "single_chain" and "base_commands": the loops written in main *)

\* opts: DependsOn(lastResource) unless lastResource is nil
Opts(last) == IF last # NoResource THEN {last} ELSE {}

\* single chain: an iteration whose NewCommand is accepted (no Triggers given)
ChainSubmitted_sc ==
    LET c == setup_commands[idx] IN
    /\ log' = Append(log, LogLine("info", "Running command: '" \o c.cmd \o "'"))
    /\ attempts' = Append(attempts, c.name)
    /\ resources' = Append(resources, NewCommand(c.name, c.cmd, <<>>, Opts(lastResource)))
    /\ lastResource' = c.name
    /\ IF idx = Len(setup_commands)
       THEN /\ idx' = 1
            /\ pc' = After(variant, "ordered")
       ELSE /\ idx' = idx + 1
            /\ pc' = pc
    /\ ret' = ret

\* single chain: the iteration whose NewCommand fails prints and returns nil
ChainFailed_sc ==
    LET c == setup_commands[idx] IN
    /\ log' = log \o << LogLine("info", "Running command: '" \o c.cmd \o "'"),
                        LogLine("stdout", "failed to run command '" \o c.cmd \o "': "
                                          \o ErrorText(SdkError)) >>
    /\ attempts' = Append(attempts, c.name)
    /\ ret' = Nil
    /\ pc' = "done"
    /\ UNCHANGED <<resources, lastResource, idx>>

ChainLoop_sc ==
    /\ pc = "ordered"
    /\ variant = "single_chain"
    /\ \/ ChainSubmitted_sc
       \/ ChainFailed_sc
    /\ err' = IF Len(resources') = Len(resources) THEN SdkError ELSE Nil
    /\ UNCHANGED <<variant, distribution, installCmdStr, updateCmdStr, setup_commands,
                   extra_commands, now, runNo, prevRun, calls>>

\* base_commands loop: an iteration whose NewCommand is accepted
BaseSubmitted_bc ==
    LET c == setup_commands[idx] IN
    /\ log' = Append(log, LogLine("info", "Running command: '" \o c.cmd \o "'"))
    /\ attempts' = Append(attempts, c.name)
    /\ resources' = Append(resources,
                           NewCommand(c.name, c.cmd, <<c.cmd>>, Opts(lastResource)))
    /\ lastResource' = c.name
    /\ IF idx = Len(setup_commands)
       THEN /\ idx' = 1
            /\ pc' = After(variant, "ordered")
       ELSE /\ idx' = idx + 1
            /\ pc' = pc
    /\ ret' = ret

\* base_commands loop: the iteration whose NewCommand fails prints and returns nil
BaseFailed_bc ==
    LET c == setup_commands[idx] IN
    /\ log' = log \o << LogLine("info", "Running command: '" \o c.cmd \o "'"),
                        LogLine("stdout", "failed to run command '" \o c.cmd \o "': "
                                          \o ErrorText(SdkError)) >>
    /\ attempts' = Append(attempts, c.name)
    /\ ret' = Nil
    /\ pc' = "done"
    /\ UNCHANGED <<resources, lastResource, idx>>

BaseLoop_bc ==
    /\ pc = "ordered"
    /\ variant = "base_commands"
    /\ \/ BaseSubmitted_bc
       \/ BaseFailed_bc
    /\ err' = IF Len(resources') = Len(resources) THEN SdkError ELSE Nil
    /\ UNCHANGED <<variant, distribution, installCmdStr, updateCmdStr, setup_commands,
                   extra_commands, now, runNo, prevRun, calls>>

\* independent commands loop: an iteration whose NewCommand is accepted
IndependentSubmitted_bc ==
    LET c == extra_commands[idx] IN
    /\ log' = Append(log, LogLine("info", "Running command: '" \o c.cmd \o "'"))
    /\ attempts' = Append(attempts, c.name)
    /\ resources' = Append(resources, NewCommand(c.name, c.cmd, <<c.cmd>>, {}))
    /\ IF idx = Len(extra_commands)
       THEN /\ idx' = 1
            /\ pc' = After(variant, "independent")
       ELSE /\ idx' = idx + 1
            /\ pc' = pc
    /\ UNCHANGED <<lastResource, ret>>

\* independent commands loop: the iteration whose NewCommand fails returns the
\* error wrapped with the command's name
IndependentFailed_bc ==
    LET c == extra_commands[idx] IN
    /\ log' = Append(log, LogLine("info", "Running command: '" \o c.cmd \o "'"))
    /\ attempts' = Append(attempts, c.name)
    /\ ret' = Errorf("failed to run command " \o c.name \o ": ", SdkError)
    /\ pc' = "done"
    /\ UNCHANGED <<resources, lastResource, idx>>

IndependentLoop_bc ==
    /\ pc = "independent"
    /\ variant = "base_commands"
    /\ \/ IndependentSubmitted_bc
       \/ IndependentFailed_bc
    /\ err' = IF Len(resources') = Len(resources) THEN SdkError ELSE Nil
    /\ UNCHANGED <<variant, distribution, installCmdStr, updateCmdStr, setup_commands,
                   extra_commands, now, runNo, prevRun, calls>>

----------------------------------------------------------------------------
(* End of the callback, and the next run of the same program *)

\* the closing ctx.Log.Info and return nil
Finish ==
    /\ pc = "finish"
    /\ log' = Append(log, LogLine("info",
                IF variant = "single_chain" THEN "Packages installed successfully!"
                ELSE distribution \o " setup complete."))
    /\ ret' = Nil
    /\ pc' = "done"
    /\ UNCHANGED <<variant, distribution, err, installCmdStr, updateCmdStr, setup_commands,
                   extra_commands, idx, lastResource, attempts, resources, now, runNo,
                   prevRun, calls>>

\* the program is run again, later, with the configuration of that moment;
\* all data is rebuilt fresh
Rerun ==
    /\ pc = "done"
    /\ runNo < MaxRuns
    /\ \E d \in Distributions, dt \in 1..MaxElapsed :
          /\ distribution' = d
          /\ now' = now + dt
    /\ prevRun' = [distribution |-> distribution, resources |-> resources,
                   ret |-> ret, now |-> now, finished |-> TRUE]
    /\ runNo' = runNo + 1
    /\ pc' = Program(variant)[1]
    /\ err' = Nil
    /\ installCmdStr' = ""
    /\ updateCmdStr' = ""
    /\ setup_commands' = <<>>
    /\ extra_commands' = <<>>
    /\ idx' = 1
    /\ lastResource' = NoResource
    /\ attempts' = <<>>
    /\ resources' = <<>>
    /\ log' = <<>>
    /\ ret' = Nil
    /\ calls' = <<>>
    /\ UNCHANGED variant

Next ==
    \/ ReadKey
    \/ CallInstallCmd
    \/ CallUpdateCmd
    \/ CallInstallCmd_sc
    \/ CallUpdateCmd_sc
    \/ BuildCommands
    \/ BuildCommands_sc
    \/ BuildCommands_bc
    \/ UpdateSystem
    \/ runOrderedCommands
    \/ runIndependentCommands
    \/ ChainLoop_sc
    \/ BaseLoop_bc
    \/ IndependentLoop_bc
    \/ Finish
    \/ Rerun

Spec == Init /\ [][Next]_vars

----------------------------------------------------------------------------
(* Vocabulary of the properties *)

Names(cmds) == [i \in 1..Len(cmds) |-> cmds[i].name]

Built == setup_commands # <<>>

\* the commands submitted with a dependency on their predecessor; update-system
\* is their anchor (in single_chain and base_commands it heads the looped list)
ChainCommands == IF variant = "helpers" THEN setup_commands ELSE Tail(setup_commands)

\* every submission of a run, in the order the program declares them
DeclaredOrder == <<"update-system">> \o Names(ChainCommands) \o Names(extra_commands)

ChainNames == {ChainCommands[i].name : i \in 1..Len(ChainCommands)}
IndependentNames == {extra_commands[i].name : i \in 1..Len(extra_commands)}

Registered == {resources[i].name : i \in 1..Len(resources)}
Attempted == {attempts[i] : i \in 1..Len(attempts)}
\* the submissions remote.NewCommand answered with an error
FailedAt == {i \in 1..Len(attempts) : attempts[i] \notin Registered}

ResourceNamed(n) == resources[CHOOSE i \in 1..Len(resources) : resources[i].name = n]

IsPrefix(p, q) == Len(p) <= Len(q) /\ SubSeq(q, 1, Len(p)) = p

HasPrefix(str, p) == Len(str) >= Len(p) /\ SubSeq(str, 1, Len(p)) = p

Contains(str, sub) ==
    \E i \in 1..(Len(str) - Len(sub) + 1) : SubSeq(str, i, i + Len(sub) - 1) = sub

\* an error whose cause is the unsupported-distribution error of installCmd / updateCmd
IsUnsupportedError(e) ==
    e # Nil /\ HasPrefix(e[Len(e)], "unsupported distribution")

SubmissionFailed == FailedAt # {}

KeyReadFailed == pc = "done" /\ ret # Nil /\ ret[1] = "failed to read private key: "

----------------------------------------------------------------------------
(* C1 *)

LiteralInstall(d) ==
    IF d = "fedora" THEN "sudo dnf install -y" ELSE "sudo apt-get install -y"
LiteralUpdate(d) ==
    IF d = "fedora" THEN "sudo dnf update -y"
    ELSE "sudo apt-get update && sudo apt-get dist-upgrade -y"

\* what the single_chain and base_commands variants return instead
BareInstall(d) == IF d = "fedora" THEN "dnf install -y" ELSE "apt-get install -y"
BashUpdate(d) ==
    IF d = "fedora" THEN "sudo dnf update -y"
    ELSE "sudo bash -c \"apt-get update && apt-get dist-upgrade -y\""

CallRejects(c) == c.val = "" /\ c.err # Nil /\ IsUnsupportedError(c.err)

----------------------------------------------------------------------------
(* C2 *)

DependencyLinks ==
    UNION {{<<resources[i].name, d>> : d \in resources[i].dependsOn} : i \in 1..Len(resources)}

ChainComplete == Built /\ ChainNames \subseteq Registered

\* C2: the k-th command of the ordered chain depends on exactly one resource,
\* update-system for k = 1 and the (k-1)-th chain command otherwise;
\* update-system depends on nothing; a chain of N commands submitted without
\* error therefore carries exactly N dependency links.
C2_ChainLinks ==
    Built =>
      /\ \A k \in 1..Len(ChainCommands) :
            ChainCommands[k].name \in Registered =>
               ResourceNamed(ChainCommands[k].name).dependsOn =
                   {IF k = 1 THEN "update-system" ELSE ChainCommands[k - 1].name}
      /\ "update-system" \in Registered => ResourceNamed("update-system").dependsOn = {}
      /\ ChainComplete =>
            Cardinality({l \in DependencyLinks : l[1] \in ChainNames}) = Len(ChainCommands)

\* the helpers variant has submitted its seven ordered commands without error
C2_Witness ==
    /\ variant = "helpers"
    /\ pc = "independent"
    /\ ChainComplete
    /\ Len(ChainCommands) = Len(resources) - 1
    /\ Len(resources) > 3

----------------------------------------------------------------------------
(* C3 *)

\* C3: when the submission of the chain command at position k fails, the
\* submissions made so far are update-system and chain commands 1..k in list
\* order, and nothing is submitted after the failed one.
C3_ChainStopsAtFailure ==
    \A i \in FailedAt :
        attempts[i] \in ChainNames \cup {"update-system"} =>
            /\ i = Len(attempts)
            /\ IsPrefix(attempts, DeclaredOrder)
            /\ Names(resources) = SubSeq(attempts, 1, i - 1)

\* the third ordered command of the helpers variant failed
C3_Witness ==
    /\ variant = "helpers"
    /\ pc = "done"
    /\ Len(attempts) = 4
    /\ FailedAt = {4}

----------------------------------------------------------------------------
(* C4 *)

\* C4: a run in which a submission failed never ends reporting success.
C4_FailureIsReturned ==
    (pc = "done" /\ SubmissionFailed) => ret # Nil

----------------------------------------------------------------------------
(* C5 *)

\* C5: with a distribution other than fedora, ubuntu, debian no remote command
\* is submitted, and the run (when it gets past reading the key) ends with an
\* unsupported-distribution error.
C5_UnsupportedSubmitsNothing ==
    distribution \notin Supported =>
        /\ attempts = <<>>
        /\ (pc = "done" /\ ~KeyReadFailed) => IsUnsupportedError(ret)

----------------------------------------------------------------------------
(* C6 *)

IndependentComplete == extra_commands # <<>> /\ IndependentNames \subseteq Registered

\* C6: an independent command depends on nothing and nothing depends on it;
\* N independent commands submitted without error are N resources without a
\* dependency edge.
C6_IndependentHaveNoEdges ==
    Built =>
      /\ \A i \in 1..Len(resources) :
            /\ resources[i].name \in IndependentNames => resources[i].dependsOn = {}
            /\ resources[i].dependsOn \cap IndependentNames = {}
      /\ IndependentComplete =>
            /\ Cardinality({i \in 1..Len(resources) :
                               resources[i].name \in IndependentNames}) = Len(extra_commands)
            /\ {l \in DependencyLinks : l[1] \in IndependentNames \/ l[2] \in IndependentNames} = {}

\* the helpers variant has submitted update-system, its chain and its three
\* independent commands
C6_Witness ==
    /\ variant = "helpers"
    /\ pc = "finish"
    /\ IndependentComplete
    /\ Len(extra_commands) > 2
    /\ DependencyLinks # {}

----------------------------------------------------------------------------
(* C7 *)

CommandNamed(n) ==
    extra_commands[CHOOSE i \in 1..Len(extra_commands) : extra_commands[i].name = n]

\* C7: when the submission of an independent command fails, nothing is
\* submitted after it and the run returns the SDK's error wrapped in a message
\* that identifies the failing command (its shell text in the helpers
\* variant, its name in the base_commands variant).
C7_IndependentStopsAtFailure ==
    \A i \in FailedAt :
        attempts[i] \in IndependentNames =>
            /\ i = Len(attempts)
            /\ pc = "done"
            /\ Len(ret) > 1
            /\ Tail(ret) = SdkError
            /\ HasPrefix(ret[1], "failed to run command")
            /\ IF variant = "helpers"
               THEN Contains(ret[1], "'" \o CommandNamed(attempts[i]).cmd \o "'")
               ELSE Contains(ret[1], " " \o attempts[i] \o ":")

\* the second independent command of the helpers variant failed
C7_Witness ==
    /\ variant = "helpers"
    /\ Built
    /\ Len(attempts) = Len(ChainCommands) + 3
    /\ FailedAt = {Len(attempts)}
    /\ attempts[Len(attempts)] = "install-uv"

----------------------------------------------------------------------------
(* C8 *)

NoDuplicates(seq) == \A i, j \in 1..Len(seq) : i # j => seq[i] # seq[j]

\* C8: the names a run declares (update-system, the ordered chain, the
\* independent set) are pairwise distinct, and no name is submitted twice.
C8_NamesUnique ==
    /\ NoDuplicates(attempts)
    /\ NoDuplicates(Names(resources))
    /\ Built => NoDuplicates(DeclaredOrder)

\* a complete run of the helpers variant on fedora
C8_Witness ==
    /\ variant = "helpers"
    /\ distribution = "fedora"
    /\ pc = "done"
    /\ ret = Nil
    /\ Built
    /\ attempts = DeclaredOrder

----------------------------------------------------------------------------
(* C9 *)

\* C9: the submissions of a run are a prefix of update-system, the chain in
\* list order, the independent commands in list order; an independent command
\* is submitted only when update-system and every chain command was submitted
\* without error.
C9_DeclarationOrder ==
    attempts # <<>> =>
      /\ IsPrefix(attempts, DeclaredOrder)
      /\ Attempted \cap IndependentNames # {} =>
            (ChainNames \cup {"update-system"}) \subseteq Registered

\* the helpers variant is submitting its independent commands
C9_Witness ==
    /\ variant = "helpers"
    /\ pc = "independent"
    /\ idx = 2
    /\ attempts[Len(attempts)] = "install-starship"

----------------------------------------------------------------------------
(* C10 *)

RunComplete(res) == Built /\ Len(res) = Len(DeclaredOrder)

BothComplete ==
    /\ prevRun.finished
    /\ pc = "done"
    /\ RunComplete(resources)
    /\ RunComplete(prevRun.resources)

SameDistribution == prevRun.finished /\ prevRun.distribution = distribution

Second(t) == t \div TicksPerSecond

====
